---- MODULE Spec2Model ----
(***************************************************************************)
(* size_format: formatting of an unsigned magnitude with a unit prefix.    *)
(*                                                                         *)
(* The model follows src/src/lib.rs and src/src/config.rs.  One formatter  *)
(* instance (SizeFormatter<BaseType, Prefix, Separator>) is constructed in *)
(* Init and then formatted any number of times; each call of               *)
(* <SizeFormatter as Display>::fmt is a run of the actions below.          *)
(*                                                                         *)
(* BaseType is an unsigned machine integer of 8, 16, 32 or 64 bits.  `*`   *)
(* either panics on overflow (overflow checks on, the debug profile) or    *)
(* wraps modulo 2^w (overflow checks off, the release profile); the        *)
(* profile is part of the configuration chosen in Init.                    *)
(*                                                                         *)
(* Ratio<BaseType> (crate num) is a reduced numerator/denominator pair;    *)
(* its operations are modelled as num-rational defines them: new reduces   *)
(* by the gcd, trunc and fract divide the numerator by the denominator,    *)
(* and `*` cancels the cross gcds before multiplying in BaseType.          *)
(*                                                                         *)
(* Every write!(f, ..)? of the two fmt functions goes to the sink behind   *)
(* the fmt::Formatter (a core::fmt::Write).  A String accepts every write; *)
(* a sink with limited room refuses the write that does not fit, and the   *)
(* `?` then returns Err(fmt::Error) from the call with the text written so *)
(* far.  The sink and its room are inputs of each call.                    *)
(***************************************************************************)
EXTENDS Integers, Sequences, FiniteSets, TLC

VARIABLES
    BaseType,         \* width in bits of the formatter's BaseType
    Prefix,           \* the PrefixType parameter
    Separator,        \* the DecimalSeparator parameter
    overflow_checks,  \* TRUE: `*` panics on overflow; FALSE: it wraps
    num,              \* SizeFormatter.num, the stored magnitude
    pc,               \* position of the current fmt call
    requested,        \* f.precision() of the current call (NoPrecision: None)
    sink_room,        \* characters the sink of the current call accepts
    precision,        \* local `precision` of fmt
    log_num,          \* int_log's local `num`
    divisions,        \* int_log's / fmt's local `divisions`
    ratio,            \* FormatRatio.num
    frac,             \* FormatRatio::fmt's local `frac`
    iter,             \* iterations of `for _ in 0..precision` done so far
    out,              \* characters the sink has taken from this call
    panic,            \* panic message of the current call, "none" otherwise
    overflowed,       \* some BaseType operation of this call exceeded 2^w - 1
    first             \* outcome of the first call on this instance that
                      \* ran to its end (returned Ok or panicked)

vars == <<BaseType, Prefix, Separator, overflow_checks, num, pc, requested,
          sink_room, precision, log_num, divisions, ratio, frac, iter, out,
          panic, overflowed, first>>

(***************************************************************************)
(* Bounds of the model.                                                    *)
(***************************************************************************)
MaxPrecision == 3   \* requested precisions 0..MaxPrecision (and 6, 9, 10)
MaxSmall == 4       \* magnitudes 0..MaxSmall
MaxDelta == 1       \* magnitudes within MaxDelta of c * multiplier^t
MaxCoeff == 1       \* c in 1..MaxCoeff
MaxRoom == 3        \* sinks with room for 0..MaxRoom characters (and a String)

(***************************************************************************)
(* Configuration: src/src/config.rs, and the three-label Millimeter policy *)
(* of src/tests/new_prefix.rs (multiplier 1000, labels "m", "", "k").      *)
(***************************************************************************)
Widths == {8, 16, 32, 64}

PrefixTypes == {"SIPrefixes", "BinaryPrefixes", "Millimeter"}

SeparatorTypes == {"PointSeparated", "CommaSeparated"}

SEPARATOR(s) == IF s = "CommaSeparated" THEN "," ELSE "."

PREFIX_SIZE(p) == IF p = "BinaryPrefixes" THEN 1024 ELSE 1000

\* Each label is the sequence of its characters.
prefixes(p) ==
    CASE p = "SIPrefixes" ->
           << <<>>, <<"k">>, <<"M">>, <<"G">>, <<"T">>, <<"P">>, <<"E">>,
              <<"Z">>, <<"Y">> >>
      [] p = "BinaryPrefixes" ->
           << <<>>, <<"K", "i">>, <<"M", "i">>, <<"G", "i">>, <<"T", "i">>,
              <<"P", "i">>, <<"E", "i">>, <<"Z", "i">>, <<"Y", "i">> >>
      [] OTHER -> << <<"m">>, <<>>, <<"k">> >>

DEFAULT_PRECISION == 1

\* f.precision() = None
NoPrecision == -1

Min(a, b) == IF a <= b THEN a ELSE b

(***************************************************************************)
(* The sink of a call: write_str(s) is Ok when s fits in the room left,    *)
(* and Err otherwise.  What a refusing sink keeps of s is the sink's       *)
(* choice: any prefix of s that fits, the empty one included.              *)
(***************************************************************************)
\* a String: no write is refused
NoLimit == -1

\* write!(f, "{}", s) is Ok(()) after `text`
Accepts(text, s, room) == room = NoLimit \/ Len(text) + Len(s) <= room

\* the texts a sink can hold after refusing s
Refused(text, s, room) ==
    {text \o SubSeq(s, 1, k) : k \in 0..Min(Len(s) - 1, room - Len(text))}

(***************************************************************************)
(* BaseType arithmetic.  A product is computed as two limbs, hi * 2^16 +   *)
(* lo, so that a value of up to 46 bits can be compared with 2^w and       *)
(* reduced modulo 2^w.  Stored values of the model are below 2^31 (see     *)
(* Magnitudes), so hi is below 2^31 too.                                   *)
(***************************************************************************)
Limb == 2 ^ 16

ProductHi(a, b) == ((a \div Limb) * b) + (((a % Limb) * b) \div Limb)

ProductLo(a, b) == ((a % Limb) * b) % Limb

\* hi * 2^16 + lo > 2^w - 1
ExceedsType(hi, lo, w) ==
    IF w < 16 THEN hi > 0 \/ lo >= 2 ^ w
    ELSE IF w - 16 < 31 THEN hi >= 2 ^ (w - 16)
    ELSE FALSE

\* the limbs of (hi * 2^16 + lo) mod 2^w
WrapHi(hi, w) ==
    IF w < 16 THEN 0 ELSE IF w - 16 < 31 THEN hi % (2 ^ (w - 16)) ELSE hi

WrapLo(lo, w) == IF w < 16 THEN lo % (2 ^ w) ELSE lo

\* BaseType::from_u32(v) is Some: v <= 2^w - 1
from_u32_is_some(v, w) == w >= 32 \/ v < 2 ^ w

\* a * b > 2^w - 1
MulOverflows(a, b, w) == ExceedsType(ProductHi(a, b), ProductLo(a, b), w)

\* (a * b) mod 2^w
wrapping_mul(a, b, w) ==
    (WrapHi(ProductHi(a, b), w) * Limb) + WrapLo(ProductLo(a, b), w)

RECURSIVE pow(_, _, _)
pow(base, exp, w) ==
    IF exp = 0 THEN 1 ELSE wrapping_mul(pow(base, exp - 1, w), base, w)

RECURSIVE PowOverflows(_, _, _)
PowOverflows(base, exp, w) ==
    IF exp = 0 THEN FALSE
    ELSE \/ PowOverflows(base, exp - 1, w)
         \/ MulOverflows(pow(base, exp - 1, w), base, w)

(***************************************************************************)
(* Ratio<BaseType>.                                                        *)
(***************************************************************************)
RECURSIVE Gcd(_, _)
Gcd(a, b) == IF b = 0 THEN a ELSE Gcd(b, a % b)

Ratio_new(n, d) ==
    LET g == Gcd(n, d) IN [numer |-> n \div g, denom |-> d \div g]

trunc(r) == r.numer \div r.denom

fract(r) == [numer |-> r.numer % r.denom, denom |-> r.denom]

is_integer(r) == r.denom = 1

\* The two BaseType products of lhs * rhs, after the cross gcds are cancelled.
MulOperands(lhs, rhs) ==
    LET gcd_ad == Gcd(lhs.numer, rhs.denom)
        gcd_bc == Gcd(lhs.denom, rhs.numer)
    IN  [n1 |-> lhs.numer \div gcd_ad, n2 |-> rhs.numer \div gcd_bc,
         d1 |-> lhs.denom \div gcd_bc, d2 |-> rhs.denom \div gcd_ad]

Ratio_mul_overflows(lhs, rhs, w) ==
    LET o == MulOperands(lhs, rhs)
    IN  MulOverflows(o.n1, o.n2, w) \/ MulOverflows(o.d1, o.d2, w)

\* lhs * rhs before Ratio::new reduces it.  The numerator is a BaseType value
\* that may need all w bits, so it is kept as its two limbs.
Ratio_mul(lhs, rhs, w) ==
    LET o == MulOperands(lhs, rhs)
    IN  [hi |-> WrapHi(ProductHi(o.n1, o.n2), w),
         lo |-> WrapLo(ProductLo(o.n1, o.n2), w),
         denom |-> wrapping_mul(o.d1, o.d2, w)]

\* Quotient and remainder of (q * d + r) * f by d, f a power of two.
RECURSIVE ShiftDivMod(_, _, _, _)
ShiftDivMod(q, r, d, f) ==
    IF f = 1 THEN [q |-> q, r |-> r]
    ELSE IF r >= d - r
         THEN ShiftDivMod((2 * q) + 1, r - (d - r), d, f \div 2)
         ELSE ShiftDivMod(2 * q, r + r, d, f \div 2)

\* Quotient and remainder of the product's numerator by its denominator.
ProductDivMod(p) ==
    LET h == ShiftDivMod(p.hi \div p.denom, p.hi % p.denom, p.denom, Limb)
        lq == p.lo \div p.denom
        lr == p.lo % p.denom
    IN  IF h.r >= p.denom - lr
        THEN [q |-> h.q + lq + 1, r |-> h.r - (p.denom - lr)]
        ELSE [q |-> h.q + lq, r |-> h.r + lr]

\* Ratio::new(product).trunc(): the reduction does not change the quotient.
product_trunc(p) == ProductDivMod(p).q

\* Ratio::new(product).fract(): gcd(numer, denom) = gcd(numer % denom, denom).
product_fract(p) == Ratio_new(ProductDivMod(p).r, p.denom)

\* Ratio::from_u64(10).unwrap()
Ten == [numer |-> 10, denom |-> 1]

(***************************************************************************)
(* Display of an unsigned integer: its decimal digits, no leading zeros.   *)
(***************************************************************************)
DigitChar == <<"0", "1", "2", "3", "4", "5", "6", "7", "8", "9">>

RECURSIVE Display(_)
Display(n) ==
    IF n < 10 THEN <<DigitChar[n + 1]>>
    ELSE Append(Display(n \div 10), DigitChar[(n % 10) + 1])

(***************************************************************************)
(* SizeFormatter::fmt, lines 170-181.                                      *)
(***************************************************************************)
max_prefix(p) == Len(prefixes(p)) - 1

unwrap_or(p, default) == IF p = NoPrecision THEN default ELSE p

\* int_log with `>` for `>=`
int_log_continues_strict(n, base) == n > base

\* the loop condition of int_log
int_log_continues(n, base) == n >= base

\* int_log dividing the stored magnitude itself instead of a clone
num_after_int_log_step_in_place(stored, quotient) == quotient

\* fmt passes self.num.clone() to int_log: the stored magnitude is untouched
num_after_int_log_step(stored, quotient) == stored

\* cmp::min(int_log(..), max_prefix)
cap_divisions(d, p) == Min(d, max_prefix(p))

\* the requested precision used as it is
cap_precision_uncapped(prec, d) == prec

\* two digits per division instead of three
cap_precision_two_per_division(prec, d) == Min(prec, d * 2)

\* cmp::min(precision, divisions * 3)
cap_precision(prec, d) == Min(prec, d * 3)

\* the digit loop stopping at an integer fraction instead of padding
zero_digit_omitted == <<>>

\* what the digit loop writes once the fraction is an integer
zero_digit == <<"0">>

BaseTypeTooSmall == "prefix size is too large for number type"

MulOverflowPanic == "attempt to multiply with overflow"

(***************************************************************************)
(* The magnitudes and precisions the model formats: the small values, the *)
(* values around c * multiplier^t, and the values of the tests and docs,   *)
(* all below 2^31 (tiers 0 to 3), in every BaseType that holds them.       *)
(***************************************************************************)
Multipliers == {PREFIX_SIZE(p) : p \in PrefixTypes}

NearTier ==
    UNION { { c * (b ^ t) + d : c \in 1..MaxCoeff, d \in (0 - MaxDelta)..MaxDelta }
            : b \in Multipliers, t \in 1..2 }
    \cup { b ^ 3 + d : b \in Multipliers, d \in (0 - MaxDelta)..MaxDelta }

TestMagnitudes ==
    {10, 255, 678, 999, 1111, 1999, 55000, 65535, 546987, 999999, 1000100,
     1500000, 8500000, 44040192, 1932735285, 1999999999, 2147483647}

Magnitudes(w) ==
    {m \in (0..MaxSmall) \cup NearTier \cup TestMagnitudes :
        ~ExceedsType(m \div Limb, m % Limb, w)}

\* 3 * t is the cap of tier t; 3 * 3 + 1 exceeds the cap of every tier reached
Precisions == (0..MaxPrecision) \cup {3 * t : t \in 1..3} \cup {(3 * 3) + 1}

\* The formatters fmt is called with: every precision with a String, and
\* precision 0 and no precision with the sinks of limited room.
Calls ==
    ((Precisions \cup {NoPrecision}) \X {NoLimit})
    \cup ({0, NoPrecision} \X (0..MaxRoom))

NoCall == [precision |-> NoPrecision, outcome |-> "none", out |-> <<>>]

NoRatio == [numer |-> 0, denom |-> 1]

Init ==
    /\ BaseType \in Widths
    /\ Prefix \in PrefixTypes
    /\ Separator \in SeparatorTypes
    /\ overflow_checks \in BOOLEAN
    /\ num \in Magnitudes(BaseType)
    /\ pc = "idle"
    /\ requested = NoPrecision
    /\ sink_room = NoLimit
    /\ precision = 0
    /\ log_num = 0
    /\ divisions = 0
    /\ ratio = NoRatio
    /\ frac = NoRatio
    /\ iter = 0
    /\ out = <<>>
    /\ panic = "none"
    /\ overflowed = FALSE
    /\ first = NoCall

Config == <<BaseType, Prefix, Separator, overflow_checks>>

\* The record of a call that ran to its end, kept for the first one only.
Completed(p, outcome, text) ==
    IF first = NoCall
    THEN [precision |-> p, outcome |-> outcome, out |-> text]
    ELSE first

(***************************************************************************)
(* fmt, lines 169-173: a call starts; the multiplier is converted.         *)
(***************************************************************************)
fmt_enter(p, room) ==
    /\ pc \in {"idle", "done", "panicked", "failed"}
    /\ requested' = p
    /\ sink_room' = room
    /\ precision' = unwrap_or(p, DEFAULT_PRECISION)
    /\ out' = <<>>
    /\ overflowed' = FALSE
    /\ log_num' = num
    /\ divisions' = 0
    /\ ratio' = NoRatio
    /\ frac' = NoRatio
    /\ iter' = 0
    /\ IF from_u32_is_some(PREFIX_SIZE(Prefix), BaseType)
       THEN /\ pc' = "int_log"
            /\ panic' = "none"
            /\ first' = first
       ELSE /\ pc' = "panicked"
            /\ panic' = BaseTypeTooSmall
            /\ first' = Completed(p, "panicked", <<>>)
    /\ UNCHANGED <<Config, num>>

(***************************************************************************)
(* int_log, lines 203-206: one iteration of the loop.                      *)
(***************************************************************************)
int_log_step ==
    /\ pc = "int_log"
    /\ int_log_continues(log_num, PREFIX_SIZE(Prefix))
    /\ log_num' = log_num \div PREFIX_SIZE(Prefix)
    /\ divisions' = divisions + 1
    /\ num' = num_after_int_log_step(num, log_num')
    /\ UNCHANGED <<Config, pc, requested, sink_room, precision, ratio, frac,
                   iter, out, panic, overflowed, first>>

(***************************************************************************)
(* int_log returns (line 208); fmt, lines 176-183: the tier, the capped    *)
(* precision and the ratio.                                                *)
(***************************************************************************)
select_prefix ==
    /\ pc = "int_log"
    /\ ~int_log_continues(log_num, PREFIX_SIZE(Prefix))
    /\ LET d == cap_divisions(divisions, Prefix)
           over == PowOverflows(PREFIX_SIZE(Prefix), d, BaseType)
       IN  /\ divisions' = d
           /\ precision' = cap_precision(precision, d)
           /\ overflowed' = (overflowed \/ over)
           /\ IF over /\ overflow_checks
              THEN /\ pc' = "panicked"
                   /\ panic' = MulOverflowPanic
                   /\ ratio' = ratio
                   /\ first' = Completed(requested, "panicked", out)
              ELSE /\ pc' = "write_int"
                   /\ panic' = panic
                   /\ ratio' = Ratio_new(num, pow(PREFIX_SIZE(Prefix), d, BaseType))
                   /\ first' = first
    /\ UNCHANGED <<Config, num, requested, sink_room, log_num, frac, iter,
                   out>>

(***************************************************************************)
(* FormatRatio::fmt, lines 246-249: write!(f, "{}", self.num.trunc())?,    *)
(* then the test of the precision.                                         *)
(***************************************************************************)
write_int ==
    /\ pc = "write_int"
    /\ LET s == Display(trunc(ratio))
       IN  IF Accepts(out, s, sink_room)
           THEN /\ out' = out \o s
                /\ pc' = IF precision > 0 THEN "separator" ELSE "label"
           ELSE /\ out' \in Refused(out, s, sink_room)
                /\ pc' = "failed"
    /\ UNCHANGED <<Config, num, requested, sink_room, precision, log_num,
                   divisions, ratio, frac, iter, panic, overflowed, first>>

(***************************************************************************)
(* FormatRatio::fmt, lines 250-251: write!(f, "{}", SEPARATOR)?, then the  *)
(* fractional part.                                                        *)
(***************************************************************************)
write_separator ==
    /\ pc = "separator"
    /\ LET s == <<SEPARATOR(Separator)>>
       IN  IF Accepts(out, s, sink_room)
           THEN /\ out' = out \o s
                /\ frac' = fract(ratio)
                /\ pc' = "digits"
           ELSE /\ out' \in Refused(out, s, sink_room)
                /\ frac' = frac
                /\ pc' = "failed"
    /\ iter' = 0
    /\ UNCHANGED <<Config, num, requested, sink_room, precision, log_num,
                   divisions, ratio, panic, overflowed, first>>

(***************************************************************************)
(* FormatRatio::fmt, lines 254-256: the fraction is an integer;            *)
(* write!(f, "0")?.                                                        *)
(***************************************************************************)
digit_zero ==
    /\ pc = "digits"
    /\ iter < precision
    /\ is_integer(frac)
    /\ IF Accepts(out, zero_digit, sink_room)
       THEN /\ out' = out \o zero_digit
            /\ iter' = iter + 1
            /\ pc' = pc
       ELSE /\ out' \in Refused(out, zero_digit, sink_room)
            /\ iter' = iter
            /\ pc' = "failed"
    /\ UNCHANGED <<Config, num, requested, sink_room, precision, log_num,
                   divisions, ratio, frac, panic, overflowed, first>>

(***************************************************************************)
(* FormatRatio::fmt, lines 257-262: the next digit; frac * 10, then        *)
(* write!(f, "{}", frac.trunc())?, then frac.fract().                      *)
(***************************************************************************)
digit_next ==
    /\ pc = "digits"
    /\ iter < precision
    /\ ~is_integer(frac)
    /\ LET over == Ratio_mul_overflows(frac, Ten, BaseType)
           product == Ratio_mul(frac, Ten, BaseType)
           s == Display(product_trunc(product))
       IN  /\ overflowed' = (overflowed \/ over)
           /\ IF over /\ overflow_checks
              THEN /\ pc' = "panicked"
                   /\ panic' = MulOverflowPanic
                   /\ first' = Completed(requested, "panicked", out)
                   /\ UNCHANGED <<frac, out, iter>>
              ELSE IF Accepts(out, s, sink_room)
              THEN /\ out' = out \o s
                   /\ frac' = product_fract(product)
                   /\ iter' = iter + 1
                   /\ UNCHANGED <<pc, panic, first>>
              ELSE /\ out' \in Refused(out, s, sink_room)
                   /\ pc' = "failed"
                   /\ UNCHANGED <<frac, iter, panic, first>>
    /\ UNCHANGED <<Config, num, requested, sink_room, precision, log_num,
                   divisions, ratio>>

(***************************************************************************)
(* FormatRatio::fmt, lines 263-266: the loop ends, Ok(()) is returned.     *)
(***************************************************************************)
digits_done ==
    /\ pc = "digits"
    /\ iter = precision
    /\ pc' = "label"
    /\ UNCHANGED <<Config, num, requested, sink_room, precision, log_num,
                   divisions, ratio, frac, iter, out, panic, overflowed, first>>

(***************************************************************************)
(* fmt, lines 185-192: the prefix label; the call returns Ok(()), or the   *)
(* Err of the sink.                                                        *)
(***************************************************************************)
write_label ==
    /\ pc = "label"
    /\ LET s == prefixes(Prefix)[divisions + 1]
       IN  IF Accepts(out, s, sink_room)
           THEN /\ out' = out \o s
                /\ pc' = "done"
                /\ first' = Completed(requested, "done", out')
           ELSE /\ out' \in Refused(out, s, sink_room)
                /\ pc' = "failed"
                /\ first' = first
    /\ UNCHANGED <<Config, num, requested, sink_room, precision, log_num,
                   divisions, ratio, frac, iter, panic, overflowed>>

Next ==
    \/ \E c \in Calls : fmt_enter(c[1], c[2])
    \/ int_log_step
    \/ select_prefix
    \/ write_int
    \/ write_separator
    \/ digit_zero
    \/ digit_next
    \/ digits_done
    \/ write_label

Spec == Init /\ [][Next]_vars

(***************************************************************************)
(* Reading an output back: <integer-digits>[<separator><fractional-digits>]*)
(* <prefix-label>.  No label holds a digit or a separator.                 *)
(***************************************************************************)
IsDigit(c) == \E i \in 1..10 : DigitChar[i] = c

IsSeparator(c) == \E s \in SeparatorTypes : SEPARATOR(s) = c

DigitValue(c) == (CHOOSE i \in 1..10 : DigitChar[i] = c) - 1

ButLast(s) == SubSeq(s, 1, Len(s) - 1)

\* the last index of the run of digits (separators too, with seps) from i on
RECURSIVE RunEnd(_, _, _)
RunEnd(s, i, seps) ==
    IF i <= Len(s) /\ (IsDigit(s[i]) \/ (seps /\ IsSeparator(s[i])))
    THEN RunEnd(s, i + 1, seps)
    ELSE i - 1

NumericPart(s) == SubSeq(s, 1, RunEnd(s, 1, TRUE))

LabelPart(s) == SubSeq(s, RunEnd(s, 1, TRUE) + 1, Len(s))

IntDigits(s) == SubSeq(s, 1, RunEnd(s, 1, FALSE))

\* what follows the first separator of the numeric part
FracPart(s) == SubSeq(s, RunEnd(s, 1, FALSE) + 2, RunEnd(s, 1, TRUE))

SeparatorCount(s) == Cardinality({i \in 1..Len(s) : IsSeparator(s[i])})

RECURSIVE DecValue(_)
DecValue(ds) ==
    IF ds = <<>> THEN 0
    ELSE (DecValue(ButLast(ds)) * 10) + DigitValue(ds[Len(ds)])

(***************************************************************************)
(* The mathematics the claims compare the program with, over unbounded     *)
(* integers and written so that no intermediate value exceeds its inputs.  *)
(***************************************************************************)
\* b^t when b^t <= cap, and 0 when b^t exceeds cap
RECURSIVE PowWithin(_, _, _)
PowWithin(b, t, cap) ==
    IF t = 0 THEN (IF cap >= 1 THEN 1 ELSE 0)
    ELSE LET q == PowWithin(b, t - 1, cap)
         IN  IF q = 0 \/ q > cap \div b THEN 0 ELSE q * b

\* 0 when m < b, else the largest t in 1..maxTier with b^t <= m
TierOf(m, b, maxTier) ==
    IF m < b THEN 0
    ELSE CHOOSE t \in 1..maxTier :
            /\ PowWithin(b, t, m) # 0
            /\ \A u \in 1..maxTier : PowWithin(b, u, m) # 0 => u <= t

\* b^t for a tier t of m
ScaleOf(m, b, t) == IF t = 0 THEN 1 ELSE PowWithin(b, t, m)

\* the loop of the specification's select_tier
RECURSIVE select_tier(_, _, _, _)
select_tier(rem, b, maxTier, tier) ==
    IF rem >= b /\ tier < maxTier
    THEN select_tier(rem \div b, b, maxTier, tier + 1)
    ELSE tier

\* quotient and remainder of q * d + r + k * x by d, for r < d and x < d
RECURSIVE AddDivMod(_, _, _, _, _)
AddDivMod(q, r, x, d, k) ==
    IF k = 0 THEN [q |-> q, r |-> r]
    ELSE IF r >= d - x
         THEN AddDivMod(q + 1, r - (d - x), x, d, k - 1)
         ELSE AddDivMod(q, r + x, x, d, k - 1)

TimesTen(r, d) == AddDivMod(0, 0, r, d, 10)

\* the first e fractional digits of r / d (r < d), by long division
RECURSIVE ExactDigits(_, _, _)
ExactDigits(r, d, e) ==
    IF e = 0 THEN <<>>
    ELSE <<DigitChar[TimesTen(r, d).q + 1]>>
         \o ExactDigits(TimesTen(r, d).r, d, e - 1)

\* what is left of r / d after e fractional digits
RECURSIVE ExactRest(_, _, _)
ExactRest(r, d, e) ==
    IF e = 0 THEN r ELSE ExactRest(TimesTen(r, d).r, d, e - 1)

\* The call in progress, as the claims name its parts.
Multiplier == PREFIX_SIZE(Prefix)

Tier == TierOf(num, Multiplier, max_prefix(Prefix))

Scale == ScaleOf(num, Multiplier, Tier)

Requested == unwrap_or(requested, DEFAULT_PRECISION)

Effective == Min(Requested, 3 * Tier)

Returned == pc = "done"

FirstRequested == unwrap_or(first.precision, DEFAULT_PRECISION)

(***************************************************************************)
(* The claims.                                                             *)
(***************************************************************************)

\* C1: the numeric part of every returned output is the truncation toward
\* zero of num / Multiplier^Tier to min(p, 3 * Tier) fractional digits: the
\* integer part is the floor of the quotient and the fractional digits are
\* the first digits of its expansion, never rounded.
C1_TruncatedTowardZero ==
    Returned =>
        /\ DecValue(IntDigits(out)) = num \div Scale
        /\ FracPart(out) = ExactDigits(num % Scale, Scale, Effective)

\* C2: a returned output holds exactly min(p, 3 * Tier) fractional digits
\* (p = 1 when no precision is given), and the configured separator exactly
\* once if that number is positive and not at all otherwise; below the
\* multiplier the output is integer digits and the tier-0 label only.
C2_FractionDigitCount ==
    Returned =>
        /\ Len(FracPart(out)) = Effective
        /\ \A i \in 1..Len(FracPart(out)) : IsDigit(FracPart(out)[i])
        /\ SeparatorCount(out) = IF Effective > 0 THEN 1 ELSE 0
        /\ \A i \in 1..Len(out) :
              IsSeparator(out[i]) => out[i] = SEPARATOR(Separator)
        /\ Len(IntDigits(out)) >= 1
        /\ num < Multiplier =>
              out = IntDigits(out) \o prefixes(Prefix)[1]

\* a call asked for more digits than its tier allows and returned the cap
C2_Witness ==
    /\ Returned
    /\ divisions >= 1
    /\ Requested > 3 * divisions
    /\ Len(FracPart(out)) = 3 * divisions

\* C3: the tier fmt uses (int_log capped by max_prefix) is the result of
\* the specification's select_tier loop, which is 0 below the multiplier
\* and otherwise the largest t in 1..max_prefix with Multiplier^t <= num; it
\* indexes the prefix table, the label written is the table's entry, and
\* the integer part is the floor of num / Multiplier^tier also when num is
\* beyond the last tier.
C3_TierSelection ==
    /\ pc \in {"write_int", "separator", "digits", "label", "done", "failed"} =>
          /\ divisions = select_tier(num, Multiplier, max_prefix(Prefix), 0)
          /\ divisions = Tier
          /\ divisions + 1 \in DOMAIN prefixes(Prefix)
    /\ Returned =>
          /\ LabelPart(out) = prefixes(Prefix)[divisions + 1]
          /\ DecValue(IntDigits(out)) =
                num \div ScaleOf(num, Multiplier, divisions)

\* a magnitude beyond the last tier was printed with an integer part that
\* is not below the multiplier
C3_Witness ==
    /\ Returned
    /\ divisions = max_prefix(Prefix)
    /\ DecValue(IntDigits(out)) >= Multiplier
    /\ LabelPart(out) = prefixes(Prefix)[max_prefix(Prefix) + 1]

\* the numeric part at precision p without its last character (and, when
\* p = 1 leaves a trailing separator, without that too)
Shorten(s, p) == IF p = 1 THEN ButLast(ButLast(s)) ELSE ButLast(s)

\* C4 as stated: for every precision p >= 1, the numeric part at precision
\* p without its last digit is the numeric part at precision p - 1.
C4_TruncationLawEveryPrecision ==
    (/\ Returned
     /\ first.outcome = "done"
     /\ Requested >= 1
     /\ FirstRequested = Requested - 1)
    => ButLast(NumericPart(out)) = NumericPart(first.out)

\* C4 amended: for 1 <= p <= 3 * Tier, whenever the call at precision p
\* returns, the call at p - 1 returns too, and the numeric part at p
\* without its last digit (and without the separator this leaves at the end
\* when p = 1) is the numeric part at p - 1; for p > 3 * Tier the two
\* numeric parts are equal.
C4_TruncationLaw ==
    /\ (/\ Returned
        /\ first.outcome # "none"
        /\ Requested >= 1
        /\ FirstRequested = Requested - 1)
       => /\ first.outcome = "done"
          /\ NumericPart(first.out) =
                IF Requested <= 3 * Tier
                THEN Shorten(NumericPart(out), Requested)
                ELSE NumericPart(out)
    /\ (/\ first.outcome = "done"
        /\ pc \in {"done", "panicked"}
        /\ FirstRequested = Requested + 1)
       => /\ Returned
          /\ NumericPart(out) =
                IF FirstRequested <= 3 * Tier
                THEN Shorten(NumericPart(first.out), FirstRequested)
                ELSE NumericPart(first.out)

\* the instance was formatted at p - 1 and then at p, 2 <= p <= 3 * Tier
C4_Witness ==
    /\ Returned
    /\ first.outcome = "done"
    /\ Requested >= 2
    /\ Requested <= 3 * Tier
    /\ FirstRequested = Requested - 1
    /\ Len(FracPart(out)) = Requested

\* C5: when the multiplier is not representable in BaseType every call
\* fails with "prefix size is too large for number type" before anything
\* is written, and no call fails in any other way: none panics with
\* another message and none returns an error.
C5_OnlyBaseTypeTooSmallFails ==
    /\ ~from_u32_is_some(Multiplier, BaseType) =>
          /\ pc \in {"idle", "panicked"}
          /\ pc = "panicked" => (panic = BaseTypeTooSmall /\ out = <<>>)
    /\ pc = "panicked" => panic = BaseTypeTooSmall
    /\ pc # "failed"

\* C6: with a 16, 32 or 64 bit BaseType and a shipped policy no arithmetic step
\* of a call exceeds 2^w - 1.
C6_NoArithmeticOverflow ==
    (BaseType \in {16, 32, 64} /\ Prefix \in {"SIPrefixes", "BinaryPrefixes"})
    => ~overflowed

\* C7: with a representable multiplier no call fails: int_log stops, the
\* digit loop runs exactly `precision` iterations and the call returns its
\* text; it neither panics nor returns an error.
C7_EveryCallReturns ==
    from_u32_is_some(Multiplier, BaseType) =>
        /\ pc \notin {"panicked", "failed"}
        /\ pc = "digits" => iter <= precision
        /\ (Returned /\ precision > 0) => iter = precision

\* C8 as stated: with multiplier 1000 or 1024 and a requested precision of
\* at least 3 * Tier the rendered number is num / Multiplier^Tier exactly.
C8_ExactAtFullPrecision ==
    (/\ Returned
     /\ Prefix \in {"SIPrefixes", "BinaryPrefixes"}
     /\ Requested >= 3 * Tier)
    => /\ DecValue(IntDigits(out)) = num \div Scale
       /\ FracPart(out) = ExactDigits(num % Scale, Scale, Effective)
       /\ ExactRest(num % Scale, Scale, Effective) = 0

\* C8 amended: with multiplier 1000 and a requested precision of at least
\* 3 * Tier the rendered number times 1000^Tier is num: the output has
\* 3 * Tier fractional digits and integer part * 1000^Tier + fractional
\* digits = num.  With multiplier 1024 digits beyond position 3 * Tier can
\* be nonzero and are dropped.
C8_ExactAtFullPrecisionSI ==
    (/\ Returned
     /\ Multiplier = 1000
     /\ Requested >= 3 * Tier)
    => /\ Len(FracPart(out)) = 3 * Tier
       /\ (DecValue(IntDigits(out)) * Scale) + DecValue(FracPart(out)) = num

\* a magnitude whose last fractional digit at full precision is not zero
C8_Witness ==
    /\ Returned
    /\ Multiplier = 1000
    /\ Tier >= 1
    /\ Requested >= 3 * Tier
    /\ num % 10 # 0
    /\ Len(FracPart(out)) = 3 * Tier

\* C9: no step of a call changes the stored magnitude, and a call that
\* returns after any sequence of calls returns the string the first call
\* with the same precision returned.
C9_HistoryIndependent ==
    [][/\ num' = num
       /\ (/\ pc' = "done"
           /\ first'.outcome = "done"
           /\ unwrap_or(first'.precision, DEFAULT_PRECISION)
                 = unwrap_or(requested', DEFAULT_PRECISION))
          => out' = first'.out]_vars

\* a later call with the precision of the first call has computed its tier
\* and written its digits
C9_Witness ==
    /\ pc = "label"
    /\ first.outcome = "done"
    /\ FirstRequested = Requested
    /\ divisions >= 1
    /\ Len(out) >= 3

\* C10: in the digit loop the remainder r satisfies 0 <= r < 1; an
\* iteration with r # 0 computes the single digit trunc(10 * r) and, when
\* the sink takes it, leaves 10 * r - trunc(10 * r); an iteration with
\* r = 0 writes "0" and leaves 0.  The loop is left only at its end or by
\* the error of the sink.
C10_DigitLoopInvariant ==
    [][pc = "digits" =>
          /\ frac.numer < frac.denom
          /\ pc' \in {"digits", "label", "failed"}
          /\ iter' = iter + 1 =>
                /\ out' = Append(out,
                        DigitChar[TimesTen(frac.numer, frac.denom).q + 1])
                /\ frac' = Ratio_new(TimesTen(frac.numer, frac.denom).r,
                                     frac.denom)]_vars

====
